---- MODULE Spec2Model ----
(***************************************************************************)
(* The request pipeline of the CY Weather API: the two weather handlers of *)
(* src/api/src/resources/weather_resource.py, the metric helpers of        *)
(* src/api/src/metrics/prometheus_metrics.py, and the health route, the    *)
(* scrape route and the request instrumentation of src/api/main.py.        *)
(*                                                                         *)
(* Strings are sequences of one-character strings, so that str.lower() and *)
(* str.upper() are computed character by character.  Fixed label values    *)
(* ("current", "error", ...) are one-element sequences.                    *)
(* A handler runs on the event loop: everything up to its single await is  *)
(* one step, everything after the await returns or raises is one step.     *)
(* Requests in flight are kept as a bag; of the finished requests the most *)
(* recent one is kept, with the registry calls it made and its response.   *)
(***************************************************************************)
EXTENDS Integers, Sequences, FiniteSets, Bags, TLC

VARIABLES
    weather_requests_total,     \* Counter   [<<endpoint, city, status>> -> count]
    external_api_errors_total,  \* Counter   [<<api_name, error_type>> -> count]
    weather_request_duration,   \* Histogram [<<endpoint, city>> -> number of observations]
    current_temperature,        \* Gauge     [<<city, country>> -> value]
    current_humidity,           \* Gauge     [<<city, country>> -> value]
    cities_tracked,             \* Gauge without labels
    tracked_cities,             \* the module-level set _tracked_cities
    in_flight,                  \* bag of the requests suspended at their adapter call
    last,                       \* the request that finished most recently, with its response
    started,                    \* number of requests received so far
    seen_current,               \* history: request cities of the successful current calls
    audit,                      \* history: per label, the number of requests that made a call on it
    http_requests_total         \* Instrumentator: [handler -> number of requests measured]

vars == <<weather_requests_total, external_api_errors_total, weather_request_duration,
          current_temperature, current_humidity, cities_tracked, tracked_cities,
          in_flight, last, started, seen_current, audit, http_requests_total>>

metrics == <<weather_requests_total, external_api_errors_total, weather_request_duration,
             current_temperature, current_humidity, cities_tracked, tracked_cities>>

----------------------------------------------------------------------------
(* Bounds of the model *)

MaxRequests == 2

MaxInFlight == 2

(* Program constants *)

CityMinLength == 1

CountryMaxLength == 2

StatusOK == 200

StatusNotFound == 404

StatusValidation == 422

StatusServerError == 500

----------------------------------------------------------------------------
(* Strings *)

CasePairs == {<<"a", "A">>, <<"b", "B">>, <<"f", "F">>, <<"r", "R">>,
              <<"u", "U">>, <<"n", "N">>, <<"k", "K">>, <<"o", "O">>, <<"w", "W">>}

LowerLetters == {p[1] : p \in CasePairs}

UpperLetters == {p[2] : p \in CasePairs}

LowerChar(c) == IF c \in UpperLetters THEN (CHOOSE p \in CasePairs : p[2] = c)[1] ELSE c

UpperChar(c) == IF c \in LowerLetters THEN (CHOOSE p \in CasePairs : p[1] = c)[2] ELSE c

Lower(s) == [i \in DOMAIN s |-> LowerChar(s[i])]

Upper(s) == [i \in DOMAIN s |-> UpperChar(s[i])]

Contains(s, t) ==
    \E i \in 0..(Len(s) - Len(t)) : \A j \in 1..Len(t) : s[i + j] = t[j]

None == [some |-> FALSE, val |-> <<>>]

Some(v) == [some |-> TRUE, val |-> v]

(* `x or ""` of an optional string *)
OrEmpty(x) == IF x.some /\ x.val # <<>> THEN x.val ELSE <<>>

----------------------------------------------------------------------------
(* Inputs *)

Cities == {<<>>, <<"a", "b">>, <<"A", "b">>, <<"b">>}

(* the city query parameter: absent, or any string *)
CityParams == {None} \cup {Some(c) : c \in Cities}

(* the country_code query parameter: absent, or any string *)
CountryParams == {None, Some(<<"f", "r">>), Some(<<"f", "r", "a">>)}

CURRENT == <<"current">>

FORECAST == <<"forecast">>

HEALTH == <<"health">>

METRICS == <<"metrics">>

(* the route template of each endpoint *)
HandlerOf(endpoint) ==
    CASE endpoint = CURRENT -> "/api/weather/current"
      [] endpoint = FORECAST -> "/api/weather/forecast"
      [] endpoint = HEALTH -> "/api/health"
      [] endpoint = METRICS -> "/metrics"

(* the excluded_handlers of the Instrumentator the application installs *)
EXCLUDED_HANDLERS == {"/metrics"}

SUCCESS == <<"success">>

ERROR == <<"error">>

OPEN_METEO == <<"open-meteo">>

UNKNOWN == <<"U", "N", "K", "N", "O", "W", "N">>

----------------------------------------------------------------------------
(* The metrics registry: the operations of prometheus_client the helpers   *)
(* use.  A labelled child exists once .labels(...) has been called for it, *)
(* so a metric is a function whose domain is the label tuples used so far. *)
(* Of the histogram only the number of observations is kept: the observed  *)
(* value is a wall-clock difference.                                       *)

(* mutant: the increment overwrites the child instead of adding to it *)
Inc_overwrite(metric, labels) == (labels :> 1) @@ metric

Inc(metric, labels) ==
    IF labels \in DOMAIN metric
    THEN [metric EXCEPT ![labels] = @ + 1]
    ELSE (labels :> 1) @@ metric

Observe(metric, labels) ==
    IF labels \in DOMAIN metric
    THEN [metric EXCEPT ![labels] = @ + 1]
    ELSE (labels :> 1) @@ metric

SetGauge(metric, labels, value) == (labels :> value) @@ metric

(* One call on the registry, as a value: which metric, which operation,    *)
(* which labels, which argument.                                           *)
Call(metric, op, labels, arg) ==
    [metric |-> metric, op |-> op, labels |-> labels, arg |-> arg]

REQUESTS_TOTAL == "cy_weather_requests_total"

API_ERRORS_TOTAL == "cy_weather_external_api_errors_total"

REQUEST_DURATION == "cy_weather_request_duration_seconds"

TEMPERATURE == "cy_weather_current_temperature_celsius"

HUMIDITY == "cy_weather_current_humidity_percent"

CITIES_TRACKED == "cy_weather_cities_tracked"

TRACKED_SET == "_tracked_cities"

(* mutant: the tracked set is rebuilt from the city of the call *)
ApplyCall_rebuild(value, name, c) ==
    IF c.metric # name THEN value
    ELSE CASE c.op = "inc" -> Inc(value, c.labels)
           [] c.op = "observe" -> Observe(value, c.labels)
           [] c.op = "set" /\ c.labels = <<>> -> c.arg
           [] c.op = "set" /\ c.labels # <<>> -> SetGauge(value, c.labels, c.arg)
           [] c.op = "add" -> {c.labels[1]}

ApplyCall(value, name, c) ==
    IF c.metric # name THEN value
    ELSE CASE c.op = "inc" -> Inc(value, c.labels)
           [] c.op = "observe" -> Observe(value, c.labels)
           [] c.op = "set" /\ c.labels = <<>> -> c.arg
           [] c.op = "set" /\ c.labels # <<>> -> SetGauge(value, c.labels, c.arg)
           [] c.op = "add" -> value \cup {c.labels[1]}

RECURSIVE ApplyCalls(_, _, _)
ApplyCalls(value, name, calls) ==
    IF calls = <<>> THEN value
    ELSE ApplyCalls(ApplyCall(value, name, Head(calls)), name, Tail(calls))

----------------------------------------------------------------------------
(* The helpers of prometheus_metrics.py, each as the registry calls it makes *)

(* mutant: the city label is not lowercased *)
track_weather_request_raw_city(endpoint, city, status) ==
    <<Call(REQUESTS_TOTAL, "inc", <<endpoint, city, status>>, 1)>>

track_weather_request(endpoint, city, status) ==
    <<Call(REQUESTS_TOTAL, "inc", <<endpoint, Lower(city), status>>, 1)>>

track_external_api_error(api_name, error_type) ==
    <<Call(API_ERRORS_TOTAL, "inc", <<api_name, error_type>>, 1)>>

(* mutant: the city is added to the tracked set as received *)
update_weather_metrics_raw_tracked(tracked, city, country, temperature, humidity) ==
    LET city_lower == Lower(city)
        country_upper == IF country # <<>> THEN Upper(country) ELSE UNKNOWN
    IN  << Call(TEMPERATURE, "set", <<city_lower, country_upper>>, temperature),
           Call(HUMIDITY, "set", <<city_lower, country_upper>>, humidity),
           Call(TRACKED_SET, "add", <<city>>, 0),
           Call(CITIES_TRACKED, "set", <<>>, Cardinality(tracked \cup {city})) >>

update_weather_metrics(tracked, city, country, temperature, humidity) ==
    LET city_lower == Lower(city)
        country_upper == IF country # <<>> THEN Upper(country) ELSE UNKNOWN
    IN  << Call(TEMPERATURE, "set", <<city_lower, country_upper>>, temperature),
           Call(HUMIDITY, "set", <<city_lower, country_upper>>, humidity),
           Call(TRACKED_SET, "add", <<city_lower>>, 0),
           Call(CITIES_TRACKED, "set", <<>>, Cardinality(tracked \cup {city_lower})) >>

(* mutant: the timer's city label is not lowercased *)
time_weather_request_raw_city(endpoint, city) ==
    [histogram |-> REQUEST_DURATION, labels |-> <<endpoint, city>>, entered |-> FALSE]

time_weather_request(endpoint, city) ==
    [histogram |-> REQUEST_DURATION, labels |-> <<endpoint, Lower(city)>>, entered |-> FALSE]

MetricsTimer_enter(timer) == [timer EXCEPT !.entered = TRUE]

(* mutant: the observation is made only when the scope exits normally *)
MetricsTimer_exit_on_success_only(timer, exc_type) ==
    IF exc_type = "none" THEN <<Call(timer.histogram, "observe", timer.labels, 1)>> ELSE <<>>

(* mutant: a scope left by an exception observes twice *)
MetricsTimer_exit_twice_on_exception(timer, exc_type) ==
    IF exc_type = "none"
    THEN <<Call(timer.histogram, "observe", timer.labels, 1)>>
    ELSE <<Call(timer.histogram, "observe", timer.labels, 1),
           Call(timer.histogram, "observe", timer.labels, 1)>>

(* __exit__ observes whatever exc_type is and returns False: the exception propagates *)
MetricsTimer_exit(timer, exc_type) == <<Call(timer.histogram, "observe", timer.labels, 1)>>

----------------------------------------------------------------------------
(* The weather client adapter (weather_service) and the response models:   *)
(* what a call can return and what it can raise.                           *)

Observations == {<<None, 21, 40>>, <<Some(<<>>), 21, 40>>, <<Some(<<"f", "R">>), 0 - 5, 80>>}

(* the provider's spelling of the requested city: same letters, any case *)
CaseVariants(city) == {c \in Cities : Lower(c) = Lower(city)}

NoBody == [kind |-> "none", city |-> <<>>, country |-> None, temperature |-> 0, humidity |-> 0]

WeatherResponse(city, country, temperature, humidity) ==
    [kind |-> "weather", city |-> city, country |-> country,
     temperature |-> temperature, humidity |-> humidity]

ForecastResponse(city, country) ==
    [kind |-> "forecast", city |-> city, country |-> country,
     temperature |-> 0, humidity |-> 0]

get_current_weather_results(city, country_code) ==
    {WeatherResponse(c, o[1], o[2], o[3]) : c \in CaseVariants(city), o \in Observations}

get_forecast_results(city, country_code) ==
    {ForecastResponse(c, k) : c \in CaseVariants(city), k \in {None, Some(<<"f", "R">>)}}

(* Exceptions: the class, its base classes, the upstream status, str(e) *)
NoException == [cls |-> "none", bases |-> {}, status_code |-> 0, text |-> <<>>]

HTTPStatusError(status_code) ==
    [cls |-> "HTTPStatusError", bases |-> {"HTTPStatusError", "HTTPError", "Exception", "BaseException"},
     status_code |-> status_code, text |-> <<"upstream status">>]

ConnectError ==
    [cls |-> "ConnectError", bases |-> {"ConnectError", "HTTPError", "Exception", "BaseException"},
     status_code |-> 0, text |-> <<"connection failed">>]

ValueError ==
    [cls |-> "ValueError", bases |-> {"ValueError", "Exception", "BaseException"},
     status_code |-> 0, text |-> <<"bad upstream body">>]

CancelledError ==
    [cls |-> "CancelledError", bases |-> {"CancelledError", "BaseException"},
     status_code |-> 0, text |-> <<>>]

UpstreamStatuses == {404, 429, 503}

AdapterFailures == {HTTPStatusError(st) : st \in UpstreamStatuses} \cup {ConnectError, ValueError}

IsInstance(e, cls) == cls \in e.bases

----------------------------------------------------------------------------
(* The handlers of weather_resource.py *)

(* the body {"status": "ok"} of the health route *)
StatusOkBody == [NoBody EXCEPT !.kind = "status ok"]

(* the text exposition of the registry *)
ExpositionBody == [NoBody EXCEPT !.kind = "exposition"]

NoResponse == [status |-> 0, body |-> NoBody, detail |-> <<>>]

HTTPException(status_code, detail) == [status |-> status_code, body |-> NoBody, detail |-> detail]

(* mutant: country_code without max_length *)
ValidQuery_no_max_length(city, country_code) ==
    /\ city.some
    /\ Len(city.val) >= CityMinLength

(* the Query(...) constraints of the two signatures *)
ValidQuery(city, country_code) ==
    /\ city.some
    /\ Len(city.val) >= CityMinLength
    /\ country_code.some => Len(country_code.val) <= CountryMaxLength

(* mutant: validation failures answered 400 *)
RequestValidationError_bad_request ==
    [status |-> 400, body |-> NoBody, detail |-> <<"validation error">>]

RequestValidationError ==
    [status |-> StatusValidation, body |-> NoBody, detail |-> <<"validation error">>]

NotFoundDetail(city) ==
    <<"Ville '">> \o city \o <<"' non trouvee. Verifiez l'orthographe ou ajoutez le code pays.">>

ConnectionDetail(e) == <<"Erreur de connexion a l'API meteo: ">> \o e.text

InternalDetail(e) == <<"Erreur interne du serveur: ">> \o e.text

CurrentUpstreamDetail(e) == <<"Erreur lors de la recuperation des donnees meteo: ">> \o e.text

ForecastUpstreamDetail(e) == <<"Erreur lors de la recuperation des previsions meteo: ">> \o e.text

(* A handler's part after the await, as the registry calls it makes, the   *)
(* response it produces, and the exception that leaves the handler         *)
(* uncaught (NoException when a response is produced).                     *)
Outcome(calls, response, uncaught) ==
    [calls |-> calls, response |-> response, uncaught |-> uncaught]

get_current_weather_success(tracked, city, weather_data) ==
    Outcome(track_weather_request(CURRENT, city, SUCCESS)
              \o update_weather_metrics(tracked, weather_data.city, OrEmpty(weather_data.country),
                                        weather_data.temperature, weather_data.humidity),
            [status |-> StatusOK, body |-> weather_data, detail |-> <<>>],
            NoException)

(* mutant: the except clauses in the wrong order, httpx.HTTPError first *)
get_current_weather_except_reordered(city, e) ==
    IF IsInstance(e, "HTTPError") THEN
        Outcome(track_weather_request(CURRENT, city, ERROR)
                  \o track_external_api_error(OPEN_METEO, <<"connection_error">>),
                HTTPException(StatusServerError, ConnectionDetail(e)),
                NoException)
    ELSE IF IsInstance(e, "HTTPStatusError") THEN
        Outcome(track_weather_request(CURRENT, city, ERROR)
                  \o track_external_api_error(OPEN_METEO, <<"http_status_error">>),
                IF e.status_code = StatusNotFound
                THEN HTTPException(StatusNotFound, NotFoundDetail(city))
                ELSE HTTPException(e.status_code, CurrentUpstreamDetail(e)),
                NoException)
    ELSE IF IsInstance(e, "Exception") THEN
        Outcome(track_weather_request(CURRENT, city, ERROR)
                  \o track_external_api_error(OPEN_METEO, <<"unknown_error">>),
                HTTPException(StatusServerError, InternalDetail(e)),
                NoException)
    ELSE Outcome(<<>>, NoResponse, e)

(* mutant: the catch-all answers 200 with an empty body *)
get_current_weather_except_fallback(city, e) ==
    IF IsInstance(e, "HTTPStatusError") THEN
        Outcome(track_weather_request(CURRENT, city, ERROR)
                  \o track_external_api_error(OPEN_METEO, <<"http_status_error">>),
                IF e.status_code = StatusNotFound
                THEN HTTPException(StatusNotFound, NotFoundDetail(city))
                ELSE HTTPException(e.status_code, CurrentUpstreamDetail(e)),
                NoException)
    ELSE IF IsInstance(e, "HTTPError") THEN
        Outcome(track_weather_request(CURRENT, city, ERROR)
                  \o track_external_api_error(OPEN_METEO, <<"connection_error">>),
                HTTPException(StatusServerError, ConnectionDetail(e)),
                NoException)
    ELSE IF IsInstance(e, "Exception") THEN
        Outcome(track_weather_request(CURRENT, city, ERROR)
                  \o track_external_api_error(OPEN_METEO, <<"unknown_error">>),
                [status |-> StatusOK, body |-> NoBody, detail |-> <<>>],
                NoException)
    ELSE Outcome(<<>>, NoResponse, e)

(* the except clauses of get_current_weather, in source order *)
get_current_weather_except(city, e) ==
    IF IsInstance(e, "HTTPStatusError") THEN
        Outcome(track_weather_request(CURRENT, city, ERROR)
                  \o track_external_api_error(OPEN_METEO, <<"http_status_error">>),
                IF e.status_code = StatusNotFound
                THEN HTTPException(StatusNotFound, NotFoundDetail(city))
                ELSE HTTPException(e.status_code, CurrentUpstreamDetail(e)),
                NoException)
    ELSE IF IsInstance(e, "HTTPError") THEN
        Outcome(track_weather_request(CURRENT, city, ERROR)
                  \o track_external_api_error(OPEN_METEO, <<"connection_error">>),
                HTTPException(StatusServerError, ConnectionDetail(e)),
                NoException)
    ELSE IF IsInstance(e, "Exception") THEN
        Outcome(track_weather_request(CURRENT, city, ERROR)
                  \o track_external_api_error(OPEN_METEO, <<"unknown_error">>),
                HTTPException(StatusServerError, InternalDetail(e)),
                NoException)
    ELSE Outcome(<<>>, NoResponse, e)

(* an exception raised by a registry call of the success path, for example *)
(* float(value) inside Gauge.set                                           *)
RegistryFault ==
    [cls |-> "TypeError", bases |-> {"TypeError", "Exception", "BaseException"},
     status_code |-> 0, text |-> <<"metric update failed">>]

(* the success path when update_weather_metrics raises e after `made` of   *)
(* its registry calls: the success counter is already incremented, and the *)
(* try block encloses the success path, so e goes through the except chain *)
get_current_weather_success_raises(tracked, city, weather_data, made, e) ==
    LET updates == update_weather_metrics(tracked, weather_data.city,
                                          OrEmpty(weather_data.country),
                                          weather_data.temperature, weather_data.humidity)
        handled == get_current_weather_except(city, e)
    IN  Outcome(track_weather_request(CURRENT, city, SUCCESS)
                  \o SubSeq(updates, 1, made)
                  \o handled.calls,
                handled.response,
                handled.uncaught)

(* mutant: the forecast handler updates the gauges as the current handler does *)
get_weather_forecast_success_with_gauges(city, forecast_data) ==
    Outcome(track_weather_request(FORECAST, city, SUCCESS)
              \o update_weather_metrics(tracked_cities, forecast_data.city, OrEmpty(forecast_data.country),
                                        forecast_data.temperature, forecast_data.humidity),
            [status |-> StatusOK, body |-> forecast_data, detail |-> <<>>],
            NoException)

get_weather_forecast_success(city, forecast_data) ==
    Outcome(track_weather_request(FORECAST, city, SUCCESS),
            [status |-> StatusOK, body |-> forecast_data, detail |-> <<>>],
            NoException)

(* mutant: the connection-error clause does not count the external error *)
get_weather_forecast_except_no_api_error(city, e) ==
    IF IsInstance(e, "HTTPStatusError") THEN
        Outcome(track_weather_request(FORECAST, city, ERROR)
                  \o track_external_api_error(OPEN_METEO, <<"http_status_error">>),
                IF e.status_code = StatusNotFound
                THEN HTTPException(StatusNotFound, NotFoundDetail(city))
                ELSE HTTPException(e.status_code, ForecastUpstreamDetail(e)),
                NoException)
    ELSE IF IsInstance(e, "HTTPError") THEN
        Outcome(track_weather_request(FORECAST, city, ERROR),
                HTTPException(StatusServerError, ConnectionDetail(e)),
                NoException)
    ELSE IF IsInstance(e, "Exception") THEN
        Outcome(track_weather_request(FORECAST, city, ERROR)
                  \o track_external_api_error(OPEN_METEO, <<"unknown_error">>),
                HTTPException(StatusServerError, InternalDetail(e)),
                NoException)
    ELSE Outcome(<<>>, NoResponse, e)

(* mutant: the 404 message names the lowercased city *)
get_weather_forecast_except_lowered(city, e) ==
    IF IsInstance(e, "HTTPStatusError") THEN
        Outcome(track_weather_request(FORECAST, city, ERROR)
                  \o track_external_api_error(OPEN_METEO, <<"http_status_error">>),
                IF e.status_code = StatusNotFound
                THEN HTTPException(StatusNotFound, NotFoundDetail(Lower(city)))
                ELSE HTTPException(e.status_code, ForecastUpstreamDetail(e)),
                NoException)
    ELSE IF IsInstance(e, "HTTPError") THEN
        Outcome(track_weather_request(FORECAST, city, ERROR)
                  \o track_external_api_error(OPEN_METEO, <<"connection_error">>),
                HTTPException(StatusServerError, ConnectionDetail(e)),
                NoException)
    ELSE IF IsInstance(e, "Exception") THEN
        Outcome(track_weather_request(FORECAST, city, ERROR)
                  \o track_external_api_error(OPEN_METEO, <<"unknown_error">>),
                HTTPException(StatusServerError, InternalDetail(e)),
                NoException)
    ELSE Outcome(<<>>, NoResponse, e)

(* the except clauses of get_weather_forecast, in source order *)
get_weather_forecast_except(city, e) ==
    IF IsInstance(e, "HTTPStatusError") THEN
        Outcome(track_weather_request(FORECAST, city, ERROR)
                  \o track_external_api_error(OPEN_METEO, <<"http_status_error">>),
                IF e.status_code = StatusNotFound
                THEN HTTPException(StatusNotFound, NotFoundDetail(city))
                ELSE HTTPException(e.status_code, ForecastUpstreamDetail(e)),
                NoException)
    ELSE IF IsInstance(e, "HTTPError") THEN
        Outcome(track_weather_request(FORECAST, city, ERROR)
                  \o track_external_api_error(OPEN_METEO, <<"connection_error">>),
                HTTPException(StatusServerError, ConnectionDetail(e)),
                NoException)
    ELSE IF IsInstance(e, "Exception") THEN
        Outcome(track_weather_request(FORECAST, city, ERROR)
                  \o track_external_api_error(OPEN_METEO, <<"unknown_error">>),
                HTTPException(StatusServerError, InternalDetail(e)),
                NoException)
    ELSE Outcome(<<>>, NoResponse, e)

----------------------------------------------------------------------------
(* State *)

NoTimer == [histogram |-> "", labels |-> <<>>, entered |-> FALSE]

(* a request: its query parameters, the timer scope it opened, the number  *)
(* of adapter calls it made, how its await ended, the registry calls it    *)
(* made in order, and its response                                         *)
NoRequest ==
    [pc |-> "none", endpoint |-> <<>>, city |-> None, country_code |-> None,
     timer |-> NoTimer, adapter_calls |-> 0, exc |-> NoException,
     log |-> <<>>, response |-> NoResponse]

NoAudit == [requests |-> <<>>, errors |-> <<>>, observations |-> <<>>, overlapped |-> FALSE]

(* one more request has made a call on each of the labels of `name` it used *)
Tally(count, name, calls) ==
    LET used == {calls[i].labels : i \in {j \in DOMAIN calls : calls[j].metric = name}}
    IN  [k \in DOMAIN count \cup used |->
            (IF k \in DOMAIN count THEN count[k] ELSE 0) + (IF k \in used THEN 1 ELSE 0)]

Init ==
    /\ weather_requests_total = <<>>
    /\ external_api_errors_total = <<>>
    /\ weather_request_duration = <<>>
    /\ current_temperature = <<>>
    /\ current_humidity = <<>>
    /\ cities_tracked = 0
    /\ tracked_cities = {}
    /\ in_flight = EmptyBag
    /\ last = NoRequest
    /\ started = 0
    /\ seen_current = {}
    /\ audit = NoAudit
    /\ http_requests_total = <<>>

(* the server accepts one more request *)
Accepting == started < MaxRequests

(* the registry after a sequence of calls *)
Record(calls) ==
    /\ weather_requests_total' = ApplyCalls(weather_requests_total, REQUESTS_TOTAL, calls)
    /\ external_api_errors_total' = ApplyCalls(external_api_errors_total, API_ERRORS_TOTAL, calls)
    /\ weather_request_duration' = ApplyCalls(weather_request_duration, REQUEST_DURATION, calls)
    /\ current_temperature' = ApplyCalls(current_temperature, TEMPERATURE, calls)
    /\ current_humidity' = ApplyCalls(current_humidity, HUMIDITY, calls)
    /\ tracked_cities' = ApplyCalls(tracked_cities, TRACKED_SET, calls)
    /\ cities_tracked' = ApplyCalls(cities_tracked, CITIES_TRACKED, calls)

(* the instrumentation middleware measures every request whose handler is  *)
(* not excluded, whatever its outcome                                      *)
Instrument(handler) ==
    http_requests_total' = IF handler \in EXCLUDED_HANDLERS
                           THEN http_requests_total
                           ELSE Inc(http_requests_total, handler)

(* FastAPI answers 422 from the Query(...) constraints; the handler body   *)
(* does not run                                                            *)
Reject(endpoint, city, country_code) ==
    /\ last' = [NoRequest EXCEPT !.pc = "done", !.endpoint = endpoint,
                                 !.city = city, !.country_code = country_code,
                                 !.response = RequestValidationError]
    /\ Instrument(HandlerOf(endpoint))
    /\ started' = started + 1
    /\ UNCHANGED <<metrics, in_flight, seen_current, audit>>

(* the handler runs up to its await: the timer scope is entered and the    *)
(* adapter is called                                                       *)
Await(endpoint, city, country_code, timer) ==
    /\ BagCardinality(in_flight) < MaxInFlight
    /\ in_flight' = in_flight (+) SetToBag({
            [NoRequest EXCEPT !.pc = "fetching", !.endpoint = endpoint,
                              !.city = city, !.country_code = country_code,
                              !.timer = MetricsTimer_enter(timer),
                              !.adapter_calls = 1]})
    /\ started' = started + 1
    /\ UNCHANGED <<metrics, last, seen_current, audit, http_requests_total>>

(* mutant: the handler's counters are incremented before the timer scope  *)
(* exits                                                                   *)
Resume_observe_last(r, e, outcome) ==
    LET calls == outcome.calls \o MetricsTimer_exit(r.timer, e.cls)
    IN  /\ Record(calls)
        /\ in_flight' = in_flight (-) SetToBag({r})
        /\ last' = [r EXCEPT !.pc = IF outcome.uncaught = NoException THEN "done" ELSE "aborted",
                             !.exc = e,
                             !.log = calls,
                             !.response = outcome.response]
        /\ audit' = [requests |-> Tally(audit.requests, REQUESTS_TOTAL, calls),
                     errors |-> Tally(audit.errors, API_ERRORS_TOTAL, calls),
                     observations |-> Tally(audit.observations, REQUEST_DURATION, calls),
                     overlapped |-> \/ audit.overlapped
                                    \/ \E o \in BagToSet(in_flight (-) SetToBag({r})) :
                                          o.timer.labels = r.timer.labels]
        /\ Instrument(HandlerOf(r.endpoint))

(* mutant: a failed adapter call is retried once *)
Resume_retry(r, e, outcome) ==
    IF e \in AdapterFailures /\ r.adapter_calls < 2
    THEN /\ in_flight' = (in_flight (-) SetToBag({r}))
                            (+) SetToBag({[r EXCEPT !.adapter_calls = r.adapter_calls + 1]})
         /\ UNCHANGED <<metrics, last, audit, http_requests_total>>
    ELSE LET calls == MetricsTimer_exit(r.timer, e.cls) \o outcome.calls
         IN  /\ Record(calls)
             /\ in_flight' = in_flight (-) SetToBag({r})
             /\ last' = [r EXCEPT !.pc = IF outcome.uncaught = NoException
                                         THEN "done" ELSE "aborted",
                                  !.exc = e, !.log = calls,
                                  !.response = outcome.response]
             /\ audit' = [requests |-> Tally(audit.requests, REQUESTS_TOTAL, calls),
                          errors |-> Tally(audit.errors, API_ERRORS_TOTAL, calls),
                          observations |-> Tally(audit.observations, REQUEST_DURATION, calls),
                          overlapped |-> audit.overlapped]
             /\ Instrument(HandlerOf(r.endpoint))

(* the await of request r ends with exception e (NoException: it           *)
(* returned): the timer scope exits, then the handler's success or except  *)
(* part runs                                                               *)
Resume(r, e, outcome) ==
    LET calls == MetricsTimer_exit(r.timer, e.cls) \o outcome.calls
    IN  /\ Record(calls)
        /\ in_flight' = in_flight (-) SetToBag({r})
        /\ last' = [r EXCEPT !.pc = IF outcome.uncaught = NoException THEN "done" ELSE "aborted",
                             !.exc = e,
                             !.log = calls,
                             !.response = outcome.response]
        /\ audit' = [requests |-> Tally(audit.requests, REQUESTS_TOTAL, calls),
                     errors |-> Tally(audit.errors, API_ERRORS_TOTAL, calls),
                     observations |-> Tally(audit.observations, REQUEST_DURATION, calls),
                     overlapped |-> \/ audit.overlapped
                                    \/ \E o \in BagToSet(in_flight (-) SetToBag({r})) :
                                          o.timer.labels = r.timer.labels]
        /\ Instrument(HandlerOf(r.endpoint))

----------------------------------------------------------------------------
(* GET /api/weather/current *)

CurrentRejected(city, country_code) ==
    /\ Accepting
    /\ ~ValidQuery(city, country_code)
    /\ Reject(CURRENT, city, country_code)

CurrentFetch(city, country_code) ==
    /\ Accepting
    /\ ValidQuery(city, country_code)
    /\ Await(CURRENT, city, country_code, time_weather_request(CURRENT, city.val))

CurrentReturns(r, weather_data) ==
    /\ BagIn(r, in_flight)
    /\ r.endpoint = CURRENT
    /\ weather_data \in get_current_weather_results(r.city.val, r.country_code)
    /\ Resume(r, NoException, get_current_weather_success(tracked_cities, r.city.val, weather_data))
    /\ seen_current' = seen_current \cup {r.city.val}
    /\ UNCHANGED started

CurrentRaises(r, e) ==
    /\ BagIn(r, in_flight)
    /\ r.endpoint = CURRENT
    /\ e \in AdapterFailures
    /\ Resume(r, e, get_current_weather_except(r.city.val, e))
    /\ UNCHANGED <<started, seen_current>>

CurrentCancelled(r) ==
    /\ BagIn(r, in_flight)
    /\ r.endpoint = CURRENT
    /\ Resume(r, CancelledError, get_current_weather_except(r.city.val, CancelledError))
    /\ UNCHANGED <<started, seen_current>>

----------------------------------------------------------------------------
(* GET /api/weather/forecast *)

ForecastRejected(city, country_code) ==
    /\ Accepting
    /\ ~ValidQuery(city, country_code)
    /\ Reject(FORECAST, city, country_code)

ForecastFetch(city, country_code) ==
    /\ Accepting
    /\ ValidQuery(city, country_code)
    /\ Await(FORECAST, city, country_code, time_weather_request(FORECAST, city.val))

ForecastReturns(r, forecast_data) ==
    /\ BagIn(r, in_flight)
    /\ r.endpoint = FORECAST
    /\ forecast_data \in get_forecast_results(r.city.val, r.country_code)
    /\ Resume(r, NoException, get_weather_forecast_success(r.city.val, forecast_data))
    /\ UNCHANGED <<started, seen_current>>

ForecastRaises(r, e) ==
    /\ BagIn(r, in_flight)
    /\ r.endpoint = FORECAST
    /\ e \in AdapterFailures
    /\ Resume(r, e, get_weather_forecast_except(r.city.val, e))
    /\ UNCHANGED <<started, seen_current>>

ForecastCancelled(r) ==
    /\ BagIn(r, in_flight)
    /\ r.endpoint = FORECAST
    /\ Resume(r, CancelledError, get_weather_forecast_except(r.city.val, CancelledError))
    /\ UNCHANGED <<started, seen_current>>

----------------------------------------------------------------------------
(* GET /api/health and GET /metrics *)

health_check ==
    /\ Accepting
    /\ last' = [NoRequest EXCEPT !.pc = "done", !.endpoint = HEALTH,
                                 !.response = [status |-> StatusOK, body |-> StatusOkBody,
                                               detail |-> <<>>]]
    /\ Instrument(HandlerOf(HEALTH))
    /\ started' = started + 1
    /\ UNCHANGED <<metrics, in_flight, seen_current, audit>>

(* the scrape: the registry is rendered, nothing is written to it *)
metrics_endpoint ==
    /\ Accepting
    /\ last' = [NoRequest EXCEPT !.pc = "done", !.endpoint = METRICS,
                                 !.response = [status |-> StatusOK, body |-> ExpositionBody,
                                               detail |-> <<>>]]
    /\ Instrument(HandlerOf(METRICS))
    /\ started' = started + 1
    /\ UNCHANGED <<metrics, in_flight, seen_current, audit>>

----------------------------------------------------------------------------

(* every request that can be suspended at its adapter call *)
Fetching ==
    {[NoRequest EXCEPT !.pc = "fetching", !.endpoint = ep,
                       !.city = city, !.country_code = country_code,
                       !.timer = MetricsTimer_enter(time_weather_request(ep, city.val)),
                       !.adapter_calls = 1] :
        ep \in {CURRENT, FORECAST},
        city \in {c \in CityParams : ValidQuery(c, None)},
        country_code \in {k \in CountryParams : ValidQuery(Some(<<"a">>), k)}}

AnyWeatherData == UNION {get_current_weather_results(c, None) : c \in Cities}

AnyForecastData == UNION {get_forecast_results(c, None) : c \in Cities}

Next ==
    \/ \E city \in CityParams, country_code \in CountryParams :
          \/ CurrentRejected(city, country_code)
          \/ CurrentFetch(city, country_code)
          \/ ForecastRejected(city, country_code)
          \/ ForecastFetch(city, country_code)
    \/ \E r \in Fetching :
          \/ \E weather_data \in AnyWeatherData : CurrentReturns(r, weather_data)
          \/ \E forecast_data \in AnyForecastData : ForecastReturns(r, forecast_data)
          \/ \E e \in AdapterFailures :
                \/ CurrentRaises(r, e)
                \/ ForecastRaises(r, e)
          \/ CurrentCancelled(r)
          \/ ForecastCancelled(r)
    \/ health_check
    \/ metrics_endpoint

Spec == Init /\ [][Next]_vars

----------------------------------------------------------------------------
(* The application when every adapter call ends: the await of a request in *)
(* flight returns, raises or is cancelled, and the event loop then resumes *)
(* the handler                                                             *)

AdapterEnds(r) ==
    /\ BagIn(r, in_flight)
    /\ IF r.endpoint = CURRENT
       THEN \/ CurrentCancelled(r)
            \/ \E e \in AdapterFailures : CurrentRaises(r, e)
            \/ \E weather_data \in get_current_weather_results(r.city.val, r.country_code) :
                  CurrentReturns(r, weather_data)
       ELSE \/ ForecastCancelled(r)
            \/ \E e \in AdapterFailures : ForecastRaises(r, e)
            \/ \E forecast_data \in get_forecast_results(r.city.val, r.country_code) :
                  ForecastReturns(r, forecast_data)

LiveSpec == Spec /\ \A r \in Fetching : WF_vars(AdapterEnds(r))

----------------------------------------------------------------------------
(* The same application when a registry call of the success path can raise *)

CurrentMetricsRaise(r, weather_data, made) ==
    /\ BagIn(r, in_flight)
    /\ r.endpoint = CURRENT
    /\ weather_data \in get_current_weather_results(r.city.val, r.country_code)
    /\ Resume(r, NoException,
              get_current_weather_success_raises(tracked_cities, r.city.val, weather_data,
                                                 made, RegistryFault))
    /\ UNCHANGED <<started, seen_current>>

(* update_weather_metrics makes four registry calls: it can raise before   *)
(* the first, or after the first, second or third                         *)
UpdateCallsMade == 0..3

FaultNext ==
    \/ Next
    \/ \E r \in Fetching, weather_data \in AnyWeatherData, made \in UpdateCallsMade :
          CurrentMetricsRaise(r, weather_data, made)

FaultSpec == Init /\ [][FaultNext]_vars

----------------------------------------------------------------------------
(* Vocabulary of the properties *)

Finished(r) == r.pc \in {"done", "aborted"}

(* the request was made to one of the two weather routes *)
IsWeather(r) == r.endpoint \in {CURRENT, FORECAST}

(* the request passed validation: its handler body ran *)
Validated(r) == Finished(r) /\ r.timer.entered

(* the await of the request ended with an exception of the adapter *)
AdapterFailed(r) == Validated(r) /\ r.exc \in AdapterFailures

AdapterSucceeded(r) == Validated(r) /\ r.exc = NoException

IsCounterCall(c) == c.op = "inc"

IsObserveCall(c) == c.op = "observe"

IsApiErrorCall(c) == c.metric = API_ERRORS_TOTAL

FailureKinds == {<<"http_status_error">>, <<"connection_error">>, <<"unknown_error">>}

RECURSIVE Total(_)
Total(f) ==
    IF DOMAIN f = {} THEN 0
    ELSE LET k == CHOOSE x \in DOMAIN f : TRUE
         IN  f[k] + Total([x \in DOMAIN f \ {k} |-> f[x]])

HasUpper(s) == \E i \in DOMAIN s : s[i] \in UpperLetters

HasLower(s) == \E i \in DOMAIN s : s[i] \in LowerLetters

(* the parameters the validation must refuse *)
BadParams(city, country_code) ==
    \/ ~city.some
    \/ city.val = <<>>
    \/ country_code.some /\ Len(country_code.val) > 2

----------------------------------------------------------------------------
(* C1: a request whose adapter call failed has made exactly two counter    *)
(* calls when its error response is produced: one increment of             *)
(* cy_weather_requests_total{endpoint, lowercased city, "error"} and one   *)
(* increment of cy_weather_external_api_errors_total{"open-meteo", kind}.  *)
C1_TwoCounterEventsOnFailure ==
    AdapterFailed(last) =>
        /\ last.pc = "done"
        /\ last.response.status # 0
        /\ \E kind \in FailureKinds :
              SelectSeq(last.log, IsCounterCall) =
                 << Call(REQUESTS_TOTAL, "inc",
                         <<last.endpoint, Lower(last.city.val), ERROR>>, 1),
                    Call(API_ERRORS_TOTAL, "inc", <<OPEN_METEO, kind>>, 1) >>

C1_Witness ==
    /\ AdapterFailed(last)
    /\ last.endpoint = FORECAST
    /\ last.exc = ConnectError
    /\ Len(SelectSeq(last.log, IsCounterCall)) = 2

----------------------------------------------------------------------------
(* no request with refused parameters is in flight; one that finished was  *)
(* answered 422 and made neither an adapter call nor a registry call       *)
C2_RejectedState ==
    /\ \A r \in BagToSet(in_flight) : ~BadParams(r.city, r.country_code)
    /\ (Finished(last) /\ IsWeather(last) /\ BadParams(last.city, last.country_code)) =>
          /\ last.response.status = 422
          /\ last.adapter_calls = 0
          /\ ~last.timer.entered
          /\ last.log = <<>>

(* C2: a request with city missing or empty, or with a country_code longer *)
(* than 2 characters, is answered 422 without the adapter being called and *)
(* without any registry call: no such request is ever in flight, and the   *)
(* step that receives it leaves every weather metric and the tracked-city  *)
(* set unchanged.                                                          *)
C2_ValidationRejectsUntouched ==
    /\ []C2_RejectedState
    /\ [][(started' # started /\ in_flight' = in_flight /\ IsWeather(last')) =>
             /\ BadParams(last'.city, last'.country_code)
             /\ UNCHANGED metrics]_vars

C2_Witness ==
    /\ last.response.status = 422
    /\ last.country_code = Some(<<"f", "r", "a">>)
    /\ last.city = Some(<<"A", "b">>)
    /\ weather_requests_total # <<>>

(* C3: an adapter failure is classified once, by this table: upstream 404  *)
(* -> 404 and http_status_error; any other upstream status -> that status  *)
(* and http_status_error; a transport failure -> 500 and connection_error; *)
(* anything else -> 500 and unknown_error.                                 *)
C3_Classification ==
    AdapterFailed(last) =>
        LET e == last.exc
            kind == IF e.cls = "HTTPStatusError" THEN <<"http_status_error">>
                    ELSE IF e.cls = "ConnectError" THEN <<"connection_error">>
                    ELSE <<"unknown_error">>
            status == IF e.cls = "HTTPStatusError" THEN e.status_code ELSE 500
        IN  /\ last.response.status = status
            /\ SelectSeq(last.log, IsApiErrorCall) =
                  <<Call(API_ERRORS_TOTAL, "inc", <<OPEN_METEO, kind>>, 1)>>

C3_Witness ==
    /\ AdapterFailed(last)
    /\ last.exc = HTTPStatusError(429)
    /\ last.response.status = 429
    /\ <<OPEN_METEO, <<"http_status_error">>>> \in DOMAIN external_api_errors_total

(* the observations a finished request made: one, with its own labels *)
C4_OneObservation ==
    Validated(last) =>
        SelectSeq(last.log, IsObserveCall) =
            <<Call(REQUEST_DURATION, "observe", <<last.endpoint, Lower(last.city.val)>>, 1)>>

(* C4: a request that passed validation makes exactly one observation on   *)
(* cy_weather_request_duration_seconds{endpoint, lowercased city} when its *)
(* adapter call ends, however it ends; the histogram gains one observation *)
(* in the step that ends a request and none in any other step.             *)
C4_ExactlyOneObservation ==
    /\ []C4_OneObservation
    /\ [][Total(weather_request_duration') - Total(weather_request_duration) =
            IF BagCardinality(in_flight') < BagCardinality(in_flight) THEN 1 ELSE 0]_vars

C4_Witness ==
    /\ Validated(last)
    /\ last.exc = ValueError
    /\ last.city = Some(<<"A", "b">>)
    /\ <<CURRENT, <<"a", "b">>>> \in DOMAIN weather_request_duration
    /\ weather_request_duration[<<CURRENT, <<"a", "b">>>>] = 2

(* C5: a validated request is answered 200 with the typed model only if    *)
(* its adapter call succeeded; a failed adapter call is answered with an   *)
(* error status and a message, never with 200 or a body.                   *)
C5_AllOrNothing ==
    /\ (Validated(last) /\ last.response.status = 200) =>
          /\ last.exc = NoException
          /\ last.response.body \in
                get_current_weather_results(last.city.val, last.country_code)
                  \cup get_forecast_results(last.city.val, last.country_code)
    /\ AdapterFailed(last) =>
          /\ last.pc = "done"
          /\ last.response.status \notin {0, 200}
          /\ last.response.detail # <<>>
          /\ last.response.body = NoBody

C5_Witness ==
    /\ AdapterFailed(last)
    /\ last.exc = ValueError
    /\ last.endpoint = CURRENT
    /\ last.response.status = 500

(* C6: when the adapter reports an upstream 404, the response is 404 and   *)
(* its message contains the city exactly as the caller supplied it.        *)
C6_NotFoundNamesCity ==
    (AdapterFailed(last) /\ last.exc = HTTPStatusError(404)) =>
        /\ last.response.status = 404
        /\ Contains(last.response.detail, last.city.val)

C6_Witness ==
    /\ AdapterFailed(last)
    /\ last.exc = HTTPStatusError(404)
    /\ last.endpoint = FORECAST
    /\ last.city = Some(<<"A", "b">>)

----------------------------------------------------------------------------
(* the city label of a registry call on one of the city-labelled metrics *)
CityLabel(c) ==
    IF c.metric \in {REQUESTS_TOTAL, REQUEST_DURATION} THEN c.labels[2] ELSE c.labels[1]

CityLabelled == {REQUESTS_TOTAL, REQUEST_DURATION, TEMPERATURE, HUMIDITY}

IsCityLabelled(c) == c.metric \in CityLabelled

MetricsOf(log) == {log[i].metric : i \in DOMAIN log}

(* C7: the tracked-city gauge equals the number of distinct lowercased     *)
(* city names of the successful current calls so far, whatever their order *)
(* and however often, and in whatever letter case, a city was repeated.    *)
C7_TrackedCount ==
    cities_tracked = Cardinality({Lower(c) : c \in seen_current})

C7_Witness ==
    /\ seen_current = {<<"a", "b">>, <<"A", "b">>}
    /\ cities_tracked = 1

C9_LabelCasing ==
    /\ \A k \in DOMAIN weather_requests_total : ~HasUpper(k[2])
    /\ \A k \in DOMAIN weather_request_duration : ~HasUpper(k[2])
    /\ \A k \in DOMAIN current_temperature \cup DOMAIN current_humidity :
          ~HasUpper(k[1]) /\ ~HasLower(k[2])
    /\ \A c \in tracked_cities : ~HasUpper(c)
    /\ (AdapterSucceeded(last) /\ last.endpoint = CURRENT) =>
          LET body == last.response.body
              country == IF body.country.some /\ body.country.val # <<>>
                         THEN Upper(body.country.val) ELSE UNKNOWN
          IN  \A i \in DOMAIN last.log :
                  last.log[i].metric \in {TEMPERATURE, HUMIDITY} =>
                      last.log[i].labels = <<Lower(body.city), country>>

C9_Witness ==
    /\ <<<<"a", "b">>, <<"F", "R">>>> \in DOMAIN current_temperature
    /\ <<<<"a", "b">>, UNKNOWN>> \in DOMAIN current_humidity
    /\ last.city = Some(<<"A", "b">>)
    /\ <<CURRENT, <<"a", "b">>>> \in DOMAIN weather_request_duration

(* the step in which forecast request r leaves its await *)
ForecastLeaves(r) == r.endpoint = FORECAST /\ in_flight' = in_flight (-) SetToBag({r})

(* the step in which a forecast request is received *)
ForecastArrives ==
    /\ started' # started
    /\ \/ in_flight' = in_flight /\ last'.endpoint = FORECAST
       \/ \E r \in BagToSet(in_flight') : r.endpoint = FORECAST /\ in_flight' = in_flight (+) SetToBag({r})

(* C10: a forecast request, at any of its steps and however it ends,       *)
(* leaves the temperature gauge, the humidity gauge, the tracked-city set  *)
(* and the tracked-city gauge unchanged; when it succeeds it changes only  *)
(* the duration histogram and the success counter of ("forecast", city).   *)
C10_ForecastFrame ==
    [][/\ (ForecastArrives \/ \E r \in BagToSet(in_flight) : ForecastLeaves(r)) =>
             UNCHANGED <<current_temperature, current_humidity, tracked_cities, cities_tracked>>
       /\ \A r \in BagToSet(in_flight) :
             (ForecastLeaves(r) /\ last'.endpoint = FORECAST /\ last'.response.status = 200) =>
                 /\ weather_requests_total' =
                       Inc(weather_requests_total, <<FORECAST, Lower(r.city.val), SUCCESS>>)
                 /\ weather_request_duration' =
                       Observe(weather_request_duration, <<FORECAST, Lower(r.city.val)>>)
                 /\ UNCHANGED external_api_errors_total]_vars

C10_Witness ==
    /\ last.endpoint = FORECAST
    /\ last.response.status = 200
    /\ last.city = Some(<<"A", "b">>)
    /\ cities_tracked = 1
    /\ <<FORECAST, <<"a", "b">>, SUCCESS>> \in DOMAIN weather_requests_total

----------------------------------------------------------------------------
(* C11: under any interleaving of requests in flight at the same time, no  *)
(* update is lost or overwritten: every counter sample equals the number   *)
(* of requests that incremented it, every histogram sample equals the      *)
(* number of timer scopes that exited with its labels, and the             *)
(* tracked-city gauge equals the size of the tracked set.                  *)
C11_NoLostUpdate ==
    /\ weather_requests_total = audit.requests
    /\ external_api_errors_total = audit.errors
    /\ weather_request_duration = audit.observations
    /\ cities_tracked = Cardinality(tracked_cities)

C11_Witness ==
    /\ in_flight = EmptyBag
    /\ audit.overlapped
    /\ \E k \in DOMAIN weather_requests_total : weather_requests_total[k] = 2
    /\ \E k \in DOMAIN weather_request_duration : weather_request_duration[k] = 2
    /\ cities_tracked = 1

----------------------------------------------------------------------------
(* C12: GET /api/health is always answered 200 with the body               *)
(* {"status": "ok"}, and the health route is never measured by the request *)
(* instrumentation: the registry that /metrics renders never holds a       *)
(* sample whose handler is /api/health.                                    *)
C12_HealthUnmetered ==
    /\ (Finished(last) /\ last.endpoint = HEALTH) =>
          /\ last.response.status = 200
          /\ last.response.body = StatusOkBody
    /\ HandlerOf(HEALTH) \notin DOMAIN http_requests_total

----------------------------------------------------------------------------
(* the statement as written: every response of the two weather routes has  *)
(* status 200, 404, 422 or a 5xx status                                    *)
C13_OnlyListedStatuses ==
    (IsWeather(last) /\ last.pc = "done") =>
        last.response.status \in {200, 404, 422} \cup 500..599

(* C13: the status of every response of the two weather routes is 200      *)
(* exactly when the adapter call succeeded, 422 exactly on a validation    *)
(* failure, 404 when the upstream answered 404, the upstream's own status  *)
(* (4xx or 5xx, unchanged) for any other upstream status error, and 500    *)
(* for a connection failure or any other exception; no other status is     *)
(* returned.                                                               *)
C13_StatusTable ==
    (IsWeather(last) /\ last.pc = "done") =>
        LET s == last.response.status
            e == last.exc
        IN  /\ (s = 422) <=> BadParams(last.city, last.country_code)
            /\ (s = 200) <=> AdapterSucceeded(last)
            /\ AdapterFailed(last) =>
                  s = IF e.cls = "HTTPStatusError" THEN e.status_code ELSE 500
            /\ \/ s \in {200, 404, 422, 500}
               \/ e.cls = "HTTPStatusError" /\ s = e.status_code

C13_Witness ==
    /\ IsWeather(last)
    /\ last.pc = "done"
    /\ last.exc = HTTPStatusError(429)
    /\ last.response.status = 429

----------------------------------------------------------------------------
(* the end of an adapter call: a request leaves the requests in flight     *)
AdapterCallEnds == started' = started /\ in_flight' # in_flight

(* C14: each validated request invokes the adapter exactly once.  Every    *)
(* request in flight and every finished validated request has made one     *)
(* adapter call; the step that ends an adapter call finishes that request  *)
(* and sends nothing back to the adapter (no retry); a request whose call  *)
(* failed is answered with an error and no weather body (no cached or      *)
(* fallback value).                                                        *)
C14_SingleAdapterCall ==
    /\ [](/\ \A r \in BagToSet(in_flight) : r.adapter_calls = 1
          /\ Validated(last) => last.adapter_calls = 1
          /\ AdapterFailed(last) =>
                /\ last.pc = "done"
                /\ last.response.status >= 400
                /\ last.response.body = NoBody)
    /\ [][AdapterCallEnds =>
             /\ Finished(last')
             /\ \E r \in BagToSet(in_flight) :
                   /\ in_flight' = in_flight (-) SetToBag({r})
                   /\ last'.city = r.city
                   /\ last'.endpoint = r.endpoint
                   /\ last'.adapter_calls = r.adapter_calls]_vars

C14_Witness ==
    /\ AdapterFailed(last)
    /\ last.exc = HTTPStatusError(503)
    /\ last.response.status = 503
    /\ last.adapter_calls = 1
    /\ in_flight # EmptyBag

----------------------------------------------------------------------------
(* no sample of the counter or histogram f is removed or decreased *)
NotDecreased(f, g) == \A k \in DOMAIN f : k \in DOMAIN g /\ g[k] >= f[k]

(* the step ends the adapter call of a request by cancelling it *)
CancelStep == AdapterCallEnds /\ last'.exc = CancelledError

(* C15: a request cancelled while its adapter call is in flight does not   *)
(* corrupt metric state.  Its timer scope makes at most one observation;   *)
(* no step decreases a counter or a histogram count; the step that cancels *)
(* it changes no counter, no gauge and not the tracked-city set, and of    *)
(* the histogram only the sample of the request's own (endpoint, city),    *)
(* by at most one.                                                         *)
C15_CancellationSafe ==
    /\ [](last.exc = CancelledError =>
             /\ Len(SelectSeq(last.log, IsObserveCall)) <= 1
             /\ \A i \in DOMAIN last.log : last.log[i].labels = last.timer.labels)
    /\ [][/\ NotDecreased(weather_requests_total, weather_requests_total')
          /\ NotDecreased(external_api_errors_total, external_api_errors_total')
          /\ NotDecreased(weather_request_duration, weather_request_duration')]_vars
    /\ [][CancelStep =>
             /\ UNCHANGED <<weather_requests_total, external_api_errors_total,
                            current_temperature, current_humidity,
                            cities_tracked, tracked_cities>>
             /\ \A k \in DOMAIN weather_request_duration' :
                   LET before == IF k \in DOMAIN weather_request_duration
                                 THEN weather_request_duration[k] ELSE 0
                       after == weather_request_duration'[k]
                   IN  IF k = last'.timer.labels
                       THEN after \in {before, before + 1}
                       ELSE after = before]_vars

C15_Witness ==
    /\ last.exc = CancelledError
    /\ last.pc = "aborted"
    /\ Len(SelectSeq(last.log, IsObserveCall)) = 1
    /\ weather_requests_total # <<>>
    /\ last.timer.labels \in DOMAIN weather_request_duration
    /\ weather_request_duration[last.timer.labels] = 2

----------------------------------------------------------------------------
(* C16: the tracked-city set only grows.  No step (a current or forecast   *)
(* request that succeeds, fails or is refused, a health check, a scrape)   *)
(* removes a city from it, and the value of cy_weather_cities_tracked      *)
(* never decreases.                                                        *)
C16_TrackedOnlyGrows ==
    [][/\ tracked_cities \subseteq tracked_cities'
       /\ cities_tracked' >= cities_tracked]_vars

C16_Witness ==
    /\ tracked_cities = {<<"a", "b">>}
    /\ cities_tracked = 1
    /\ \/ AdapterFailed(last) /\ last.endpoint = CURRENT
       \/ last.endpoint = METRICS

----------------------------------------------------------------------------
IsRequestCall(c) == c.metric = REQUESTS_TOTAL

(* C17: each validated request that is answered has incremented           *)
(* cy_weather_requests_total exactly once, with status "success" if and    *)
(* only if the response is 200 and "error" otherwise (never both), and     *)
(* cy_weather_external_api_errors_total is incremented only for requests   *)
(* whose adapter call itself failed.                                       *)
C17_OneRequestOneCount ==
    (Validated(last) /\ last.pc = "done") =>
        LET counted == SelectSeq(last.log, IsRequestCall)
        IN  /\ Len(counted) = 1
            /\ counted[1].labels[3] = (IF last.response.status = 200 THEN SUCCESS ELSE ERROR)
            /\ (\E i \in DOMAIN last.log : IsApiErrorCall(last.log[i])) => AdapterFailed(last)

----------------------------------------------------------------------------
(* the value of the sample k of the counter or histogram f *)
Sample(f, k) == IF k \in DOMAIN f THEN f[k] ELSE 0

(* C18: in every state with no request in flight, for each (endpoint,      *)
(* lowercased city) the observation count of the duration histogram equals *)
(* the sum of cy_weather_requests_total for that (endpoint, city) over the *)
(* statuses "success" and "error", requests cancelled during the adapter   *)
(* call included.                                                          *)
C18_ObservationsMatchCounts ==
    in_flight = EmptyBag =>
        \A k \in DOMAIN weather_request_duration
                    \cup {<<l[1], l[2]>> : l \in DOMAIN weather_requests_total} :
            Sample(weather_request_duration, k)
                = Sample(weather_requests_total, <<k[1], k[2], SUCCESS>>)
                    + Sample(weather_requests_total, <<k[1], k[2], ERROR>>)

----------------------------------------------------------------------------
(* Validating -> Fetching: only validated requests are suspended at the    *)
(* adapter, and nothing is recorded for them yet.  (Succeeding | Failing)  *)
(* -> response: the request's first registry call is its one duration     *)
(* observation, the success or error counter comes after it; a returned    *)
(* call is answered 200 after a success count, a failed call is answered   *)
(* with an error after an error count                                      *)
C19_StateOrder ==
    /\ \A r \in BagToSet(in_flight) :
          /\ r.pc = "fetching"
          /\ ValidQuery(r.city, r.country_code)
          /\ r.log = <<>>
          /\ r.response = NoResponse
    /\ Validated(last) =>
          /\ last.log # <<>>
          /\ IsObserveCall(last.log[1])
          /\ \A i \in DOMAIN last.log : i > 1 => ~IsObserveCall(last.log[i])
    /\ AdapterSucceeded(last) =>
          /\ last.pc = "done"
          /\ last.response.status = 200
          /\ last.log[2] = Call(REQUESTS_TOTAL, "inc",
                                <<last.endpoint, Lower(last.city.val), SUCCESS>>, 1)
    /\ AdapterFailed(last) =>
          /\ last.pc = "done"
          /\ last.response.status >= 400
          /\ last.log[2] = Call(REQUESTS_TOTAL, "inc",
                                <<last.endpoint, Lower(last.city.val), ERROR>>, 1)

(* a request enters Fetching only as a new request, and leaves it only by  *)
(* finishing: no finished request is suspended again                       *)
C19_NoWayBack ==
    /\ BagCardinality(in_flight') > BagCardinality(in_flight) =>
          /\ started' = started + 1
          /\ BagCardinality(in_flight') = BagCardinality(in_flight) + 1
          /\ last' = last
    /\ BagCardinality(in_flight') < BagCardinality(in_flight) =>
          /\ started' = started
          /\ \E r \in BagToSet(in_flight) :
                /\ in_flight' = in_flight (-) SetToBag({r})
                /\ Finished(last')
                /\ last'.timer = r.timer
                /\ last'.city = r.city
                /\ last'.country_code = r.country_code
    /\ BagCardinality(in_flight') = BagCardinality(in_flight) => in_flight' = in_flight

(* C19: each request follows the order Validating -> Fetching ->           *)
(* (Succeeding | Failing) -> response and never returns to an earlier      *)
(* state; its duration observation is made after the adapter call ends and *)
(* before the success or error counter is incremented; and provided its    *)
(* adapter call ends, every request in flight eventually leaves Fetching   *)
(* for a terminal state: no request is in flight for ever (for a state     *)
(* predicate P, P ~> ~P is []<>~P).                                        *)
C19_OrderedAndTerminating ==
    /\ []C19_StateOrder
    /\ [][C19_NoWayBack]_vars
    /\ \A r \in Fetching : []<>(~BagIn(r, in_flight))

C19_Witness ==
    /\ AdapterSucceeded(last)
    /\ last.endpoint = CURRENT
    /\ last.response.status = 200
    /\ IsObserveCall(last.log[1])
    /\ Len(last.log) = 6
    /\ in_flight = EmptyBag
    /\ started = MaxRequests

====
